---- MODULE Spec2Model ----
(***************************************************************************)
(* Model of the chat server's connection registries                        *)
(* (app/websocket_manager.py), its websocket endpoint handlers             *)
(* (app/main.py, app/chat.py) and its subscription matcher                 *)
(* (app/services/subscriptions.py).                                        *)
(*                                                                         *)
(* Three specifications share the variables:                               *)
(*   MgrSpec   the four manager classes driven by connection tasks that    *)
(*             connect, disconnect and broadcast in any interleaving;      *)
(*   Spec      the endpoint handlers of main.py as they are wired;         *)
(*   MatchSpec the matcher predicates applied to bounded documents.        *)
(*                                                                         *)
(* A coroutine runs without interruption between two awaits, so one action *)
(* is one such block: from the completion of an await to the start of the  *)
(* next one.                                                               *)
(***************************************************************************)
EXTENDS Integers, Sequences, FiniteSets, TLC

\* ------------------------------------------------------------------ bounds
NumHandles == 2
NumCallers == 1

Handles == 1..NumHandles
Callers == 1..NumCallers

RoomIds == {"R1", "R2"}
SessionIds == {"S1"}
UserIds == {"u1", "u2"}
\* main.py builds two ConnectionManager objects: the one inside common_chat
\* and the module-level common_manager.
CommonInstances == {"common_chat", "common_manager"}

NoId == "-"
NoBinding == [mgr |-> "none", key |-> "none", id |-> NoId]

\* What a websocket is registered as: the manager, the scope key and, for a
\* P2P session, the participant identity.
AllBindings ==
    [mgr : {"common"}, key : CommonInstances, id : {NoId}]
    \cup [mgr : {"room"}, key : RoomIds, id : {NoId}]
    \cup [mgr : {"p2p"}, key : SessionIds, id : UserIds]
    \cup [mgr : {"sub"}, key : UserIds, id : {NoId}]

\* The scope keys MgrSpec drives: one ConnectionManager object, two rooms,
\* one session with two participant identities, one notified user.
Bindings ==
    {b \in AllBindings : b.key \in {"common_manager", "S1", "u1"} \cup RoomIds}

VARIABLES
    active_connections, \* ConnectionManager.active_connections, per instance
    rooms,              \* RoomConnectionManager.rooms: room_id -> set
    sessions,           \* P2PConnectionManager.sessions: session_id -> user_id -> websocket
    users,              \* SubscriptionConnectionManager.users: user_id -> set
    closed,             \* websockets whose channel is closed: send_json raises RuntimeError
    bound,              \* the arguments each websocket's handler passes to connect/disconnect
    call,               \* the broadcast / send / notify call each task has in flight
    joined,             \* history: per scope key, the handles joined and not since left
    pc,                 \* where each endpoint handler stands
    data,               \* the JSON each handler last got from receive_json
    cur,                \* the document store_message returned for it (`stored`)
    todo,               \* the matches _notify_subscribers has still to notify
    log,                \* what the handler has done for its current message, in order
    exit,               \* how an ended handler ended
    inbox,              \* what send_json has delivered on each websocket, in order
    messages,           \* the store's messages collection
    subscriptions,      \* the store's subscriptions collection
    quota,              \* the inbound messages the run still has room for
    audience,           \* history: the members of the handler's scope when its message arrived
    listeners,          \* history: the users registry when the matches were found
    notified,           \* history: the subscriptions notify was called for, per handler
    probe,              \* MatchSpec: the subscription and the message under evaluation
    verdict             \* MatchSpec: what the predicates returned for them

regVars == <<active_connections, rooms, sessions, users>>
appVars == <<pc, data, cur, todo, log, exit, inbox, messages, subscriptions, quota,
             audience, listeners, notified>>
matchVars == <<probe, verdict>>
vars == <<active_connections, rooms, sessions, users, closed, bound, call, joined,
          pc, data, cur, todo, log, exit, inbox, messages, subscriptions, quota,
          audience, listeners, notified, probe, verdict>>

\* ------------------------------------------------------------ dictionaries
EmptyDict == [x \in {} |-> {}]
DictGet(d, k, dflt) == IF k \in DOMAIN d THEN d[k] ELSE dflt
DictSet(d, k, v) == [x \in (DOMAIN d) \cup {k} |-> IF x = k THEN v ELSE d[x]]
DictDel(d, k) == [x \in (DOMAIN d) \ {k} |-> d[x]]

\* The four registries as one value.
Reg ==
    [ac |-> active_connections, rooms |-> rooms, sessions |-> sessions, users |-> users]

SetReg(R) ==
    /\ active_connections' = R.ac
    /\ rooms' = R.rooms
    /\ sessions' = R.sessions
    /\ users' = R.users

\* ----------------------------------------------------------------- connect
\* `await websocket.accept()` comes first in every connect: when it raises,
\* the registration after it is not reached.
Accepts(h) == h \notin closed

ConnectionManager_connect(R, inst, h) ==
    [R EXCEPT !.ac[inst] = @ \cup {h}]

RoomConnectionManager_connect(R, room_id, h) ==
    [R EXCEPT !.rooms = DictSet(@, room_id, DictGet(@, room_id, {}) \cup {h})]

P2PConnectionManager_connect_KeepsFirst(R, session_id, user_id, h) ==
    IF user_id \in DOMAIN DictGet(R.sessions, session_id, EmptyDict) THEN R
    ELSE [R EXCEPT !.sessions =
            DictSet(@, session_id, DictSet(DictGet(@, session_id, EmptyDict), user_id, h))]
P2PConnectionManager_connect(R, session_id, user_id, h) ==
    [R EXCEPT !.sessions =
        DictSet(@, session_id, DictSet(DictGet(@, session_id, EmptyDict), user_id, h))]

SubscriptionConnectionManager_connect(R, user_id, h) ==
    [R EXCEPT !.users = DictSet(@, user_id, DictGet(@, user_id, {}) \cup {h})]

Connect(R, b, h) ==
    CASE b.mgr = "common" -> ConnectionManager_connect(R, b.key, h)
      [] b.mgr = "room" -> RoomConnectionManager_connect(R, b.key, h)
      [] b.mgr = "p2p" -> P2PConnectionManager_connect(R, b.key, b.id, h)
      [] b.mgr = "sub" -> SubscriptionConnectionManager_connect(R, b.key, h)

\* -------------------------------------------------------------- disconnect
ConnectionManager_disconnect(R, inst, h) ==
    [R EXCEPT !.ac[inst] = @ \ {h}]

RoomConnectionManager_disconnect(R, room_id, h) ==
    IF room_id \in DOMAIN R.rooms
    THEN LET rest == R.rooms[room_id] \ {h}
         IN  IF rest = {}
             THEN [R EXCEPT !.rooms = DictDel(@, room_id)]
             ELSE [R EXCEPT !.rooms = DictSet(@, room_id, rest)]
    ELSE R

\* disconnect(session_id, user_id) takes no websocket: it deletes whatever is
\* registered under the participant identity.
P2PConnectionManager_disconnect(R, session_id, user_id) ==
    IF session_id \in DOMAIN R.sessions /\ user_id \in DOMAIN R.sessions[session_id]
    THEN LET rest == DictDel(R.sessions[session_id], user_id)
         IN  IF DOMAIN rest = {}
             THEN [R EXCEPT !.sessions = DictDel(@, session_id)]
             ELSE [R EXCEPT !.sessions = DictSet(@, session_id, rest)]
    ELSE R

SubscriptionConnectionManager_disconnect(R, user_id, h) ==
    IF user_id \in DOMAIN R.users
    THEN LET rest == R.users[user_id] \ {h}
         IN  IF rest = {}
             THEN [R EXCEPT !.users = DictDel(@, user_id)]
             ELSE [R EXCEPT !.users = DictSet(@, user_id, rest)]
    ELSE R

Disconnect_Nothing(R, b, h) == R
Disconnect(R, b, h) ==
    CASE b.mgr = "common" -> ConnectionManager_disconnect(R, b.key, h)
      [] b.mgr = "room" -> RoomConnectionManager_disconnect(R, b.key, h)
      [] b.mgr = "p2p" -> P2PConnectionManager_disconnect(R, b.key, b.id)
      [] b.mgr = "sub" -> SubscriptionConnectionManager_disconnect(R, b.key, h)

\* ------------------------------------------------- broadcast / send / notify
\* list(...) at the head of each loop: the members as <<identity, websocket>>.
Snapshot(R, mgr, key) ==
    CASE mgr = "common" -> {<<NoId, h>> : h \in R.ac[key]}
      [] mgr = "room" -> {<<NoId, h>> : h \in DictGet(R.rooms, key, {})}
      [] mgr = "p2p" ->
            LET d == DictGet(R.sessions, key, EmptyDict)
            IN  {<<u, d[u]>> : u \in DOMAIN d}
      [] mgr = "sub" -> {<<NoId, h>> : h \in DictGet(R.users, key, {})}

\* P2PConnectionManager.send: `if user in exclude_set: continue`.
Excluded_Nobody(user, exclude_set) == FALSE
Excluded(user, exclude_set) == user \in exclude_set

\* `await connection.send_json(message)` returns unless the channel is
\* closed (h is among the websockets gone by then), and then raises
\* RuntimeError.
SendRaises(h, gone) == IF h \in gone THEN "RuntimeError" ELSE "none"

\* `except RuntimeError:` around the send.
Caught_Nothing(exc) == FALSE
Caught(exc) == exc = "RuntimeError"

\* The `except RuntimeError` branch of each loop.
SelfHeal_Forgets(R, mgr, key, item) == R
SelfHeal(R, mgr, key, item) ==
    CASE mgr = "common" -> [R EXCEPT !.ac[key] = @ \ {item[2]}]
      [] mgr = "room" ->
            [R EXCEPT !.rooms = DictSet(@, key, DictGet(@, key, {}) \ {item[2]})]
      [] mgr = "p2p" ->
            IF key \in DOMAIN R.sessions /\ item[1] \in DOMAIN R.sessions[key]
            THEN LET rest == DictDel(R.sessions[key], item[1])
                 IN  IF DOMAIN rest = {}
                     THEN [R EXCEPT !.sessions = DictDel(@, key)]
                     ELSE [R EXCEPT !.sessions = DictSet(@, key, rest)]
            ELSE R
      [] mgr = "sub" ->
            [R EXCEPT !.users = DictSet(@, key, DictGet(@, key, {}) \ {item[2]})]

\* The statements after the loop: only RoomConnectionManager.broadcast has any.
AfterLoop(R, mgr, key) ==
    IF mgr = "room" /\ key \in DOMAIN R.rooms /\ R.rooms[key] = {}
    THEN [R EXCEPT !.rooms = DictDel(@, key)]
    ELSE R

\* The for loop moves on to the next member of its list, whatever the send did.
NextPending_Retry(pending, item, ok) == IF ok THEN pending \ {item} ELSE pending
NextPending(pending, item, ok) == pending \ {item}

NoMsg == [id |-> 0]

IdleCall ==
    [status |-> "idle", mgr |-> "none", key |-> "none", exclude |-> {}, msg |-> NoMsg,
     snapshot |-> {}, pending |-> {}, attempts |-> [h \in {} |-> 0], failed |-> {}]

\* The call up to its first await: the snapshot, the excluded members skipped.
\* attempts counts the send_json calls made on each websocket of the snapshot.
\* A call with nobody to send to runs to its end without awaiting.
BeginCall(R, mgr, key, exclude, msg) ==
    LET snap == Snapshot(R, mgr, key)
        sendable == {it \in snap : ~Excluded(it[1], exclude)}
    IN  [reg |-> IF sendable = {} THEN AfterLoop(R, mgr, key) ELSE R,
         call |-> [status |-> IF sendable = {} THEN "returned" ELSE "running",
                   mgr |-> mgr, key |-> key, exclude |-> exclude, msg |-> msg,
                   snapshot |-> snap, pending |-> sendable,
                   attempts |-> [h \in {it[2] : it \in snap} |-> 0],
                   failed |-> {}]]

\* One send completes: self-heal if it raised RuntimeError, then the next send
\* starts or, after the last one, the call returns. An exception the except
\* clause does not catch leaves the loop and the call.
StepCall_Live(R, c, item, gone) ==
    LET h == item[2]
        exc == SendRaises(h, gone)
        ok == exc = "none"
        escapes == ~ok /\ ~Caught(exc)
        R1 == IF ok \/ escapes THEN R ELSE SelfHeal(R, c.mgr, c.key, item)
        rest == IF escapes THEN {}
                ELSE NextPending(c.pending, item, ok) \cap Snapshot(R1, c.mgr, c.key)
    IN  [reg |-> IF rest = {} /\ ~escapes THEN AfterLoop(R1, c.mgr, c.key) ELSE R1,
         ok |-> ok,
         healed |-> ~ok /\ ~escapes,
         call |-> [c EXCEPT !.pending = rest,
                            !.attempts[h] = @ + 1,
                            !.failed = IF ok THEN @ ELSE @ \cup {h},
                            !.status = IF escapes THEN "raised"
                                       ELSE IF rest = {} THEN "returned"
                                       ELSE "running"]]
StepCall(R, c, item, gone) ==
    LET h == item[2]
        exc == SendRaises(h, gone)
        ok == exc = "none"
        escapes == ~ok /\ ~Caught(exc)
        R1 == IF ok \/ escapes THEN R ELSE SelfHeal(R, c.mgr, c.key, item)
        rest == IF escapes THEN {} ELSE NextPending(c.pending, item, ok)
    IN  [reg |-> IF rest = {} /\ ~escapes THEN AfterLoop(R1, c.mgr, c.key) ELSE R1,
         ok |-> ok,
         healed |-> ~ok /\ ~escapes,
         call |-> [c EXCEPT !.pending = rest,
                            !.attempts[h] = @ + 1,
                            !.failed = IF ok THEN @ ELSE @ \cup {h},
                            !.status = IF escapes THEN "raised"
                                       ELSE IF rest = {} THEN "returned"
                                       ELSE "running"]]

\* ------------------------------------------------- history of joins & leaves
NoJoins ==
    [ac |-> [i \in CommonInstances |-> {}],
     rooms |-> [r \in RoomIds |-> {}],
     sessions |-> [s \in SessionIds |-> {}],
     users |-> [u \in UserIds |-> {}]]

\* A join: in a session the most recent join wins per participant identity.
JoinedAfterJoin(J, b, h) ==
    CASE b.mgr = "common" -> [J EXCEPT !.ac[b.key] = @ \cup {h}]
      [] b.mgr = "room" -> [J EXCEPT !.rooms[b.key] = @ \cup {h}]
      [] b.mgr = "p2p" ->
            [J EXCEPT !.sessions[b.key] = {p \in @ : p[1] # b.id} \cup {<<b.id, h>>}]
      [] b.mgr = "sub" -> [J EXCEPT !.users[b.key] = @ \cup {h}]

\* A leave of handle h, issued by its own connection or by self-heal.
JoinedAfterLeave(J, mgr, key, h) ==
    CASE mgr = "common" -> [J EXCEPT !.ac[key] = @ \ {h}]
      [] mgr = "room" -> [J EXCEPT !.rooms[key] = @ \ {h}]
      [] mgr = "p2p" -> [J EXCEPT !.sessions[key] = {p \in @ : p[2] # h}]
      [] mgr = "sub" -> [J EXCEPT !.users[key] = @ \ {h}]

\* The registered members of every scope key, in the shape of the history.
Members ==
    [ac |-> active_connections,
     rooms |-> [r \in RoomIds |-> DictGet(rooms, r, {})],
     sessions |-> [s \in SessionIds |->
                     LET d == DictGet(sessions, s, EmptyDict)
                     IN  {<<u, d[u]>> : u \in DOMAIN d}],
     users |-> [u \in UserIds |-> DictGet(users, u, {})]]

\* ------------------------------------------------------------- documents
\* An Optional field: None, or the value.
None == <<>>
Some(v) == <<v>>
Val(o) == o[1]

\* A datetime is an integer instant. isoformat() turns it into a string,
\* datetime.fromisoformat() parses such a string back and raises ValueError
\* on any other string.
isoformat(t) == [iso |-> t]
IsStr(x) == "dt" \notin DOMAIN x
Datetime(t) == [dt |-> t]
Parses(x) == "iso" \in DOMAIN x
fromisoformat(x) == x.iso

\* Text is a sequence of characters.
Lower(ch) ==
    CASE ch = "H" -> "h"
      [] ch = "I" -> "i"
      [] ch = "O" -> "o"
      [] OTHER -> ch

str_lower(text) == [i \in 1..Len(text) |-> Lower(text[i])]

RECURSIVE lstrip(_)
lstrip(text) ==
    IF text # <<>> /\ Head(text) = " " THEN lstrip(Tail(text)) ELSE text

RECURSIVE rstrip(_)
rstrip(text) ==
    IF text # <<>> /\ text[Len(text)] = " "
    THEN rstrip(SubSeq(text, 1, Len(text) - 1))
    ELSE text

str_strip(text) == rstrip(lstrip(text))

\* `keyword in content` on Python strings.
IsSubstring(k, text) ==
    \E i \in 0..(Len(text) - Len(k)) : SubSeq(text, i + 1, i + Len(k)) = k

RECURSIVE _normalise_keywords(_)
_normalise_keywords(keywords) ==
    IF keywords = <<>> THEN <<>>
    ELSE IF str_strip(Head(keywords)) # <<>>
         THEN <<str_lower(str_strip(Head(keywords)))>> \o _normalise_keywords(Tail(keywords))
         ELSE _normalise_keywords(Tail(keywords))

\* create_subscription: the document inserted for a SubscriptionIn payload
\* (created_at, which nothing reads, is left out).
create_subscription(payload, id) ==
    [id |-> id,
     user_id |-> payload.user_id,
     scope |-> payload.scope,
     what |-> _normalise_keywords(payload.what),
     where |-> payload.where,
     when_start |-> payload.when_start,
     when_end |-> payload.when_end,
     room_id |-> payload.room_id,
     chat_id |-> payload.chat_id]

\* MessageIn(**data): user_id and content are required.
Validates(d) == d.user_id # None /\ d.content # None

\* store_message: the response for a validated MessageIn and the scope fields
\* the endpoint adds; created_at and event_time are serialised.
store_message(d, scope, room_id, chat_id, id, now) ==
    [id |-> id,
     user_id |-> Val(d.user_id),
     content |-> Val(d.content),
     location |-> d.location,
     event_time |-> IF d.event_time = None THEN None
                    ELSE Some(isoformat(Val(d.event_time))),
     scope |-> scope,
     room_id |-> room_id,
     chat_id |-> chat_id,
     created_at |-> Some(isoformat(now))]

\* ----------------------------------------------------------------- matcher
EARTH_RADIUS_KM == 6371

\* Coordinates are in hundredths of a degree and distances in thousandths of
\* a kilometre. On the equator (every modelled point has latitude 0) the
\* haversine distance is the arc EARTH_RADIUS_KM * |d_lon| in radians.
_haversine_distance(lat1, lon1, lat2, lon2) ==
    LET d_lon == IF lon2 >= lon1 THEN lon2 - lon1 ELSE lon1 - lon2
    IN  d_lon * ((EARTH_RADIUS_KM * 31416) \div 180000)

\* Python truthiness of an Optional[str].
Truthy(o) == o # None /\ Val(o) # ""

_match_keywords_CaseSensitive(subscription, message) ==
    IF subscription.what = <<>> THEN TRUE
    ELSE \E i \in 1..Len(subscription.what) :
             IsSubstring(subscription.what[i], message.content)
_match_keywords(subscription, message) ==
    IF subscription.what = <<>> THEN TRUE
    ELSE LET content == str_lower(message.content)
         IN  \E i \in 1..Len(subscription.what) :
                 IsSubstring(subscription.what[i], content)

_match_scope_AnyRoom(subscription, message) ==
    subscription.scope = "any" \/ message.scope = subscription.scope
_match_scope(subscription, message) ==
    IF subscription.scope = "any" THEN TRUE
    ELSE IF message.scope # subscription.scope THEN FALSE
    ELSE IF /\ subscription.scope = "room"
            /\ Truthy(subscription.room_id)
            /\ subscription.room_id # message.room_id
         THEN FALSE
    ELSE IF /\ subscription.scope = "p2p"
            /\ Truthy(subscription.chat_id)
            /\ subscription.chat_id # message.chat_id
         THEN FALSE
    ELSE TRUE

_match_location(subscription, message) ==
    IF subscription.where = None THEN TRUE
    ELSE IF message.location = None THEN FALSE
    ELSE LET sub_location == Val(subscription.where)
             msg_location == Val(message.location)
             radius == IF sub_location.radius_km = None THEN 0
                       ELSE Val(sub_location.radius_km)
         IN  IF radius <= 0 THEN TRUE
             ELSE _haversine_distance(sub_location.latitude, sub_location.longitude,
                                      msg_location.latitude, msg_location.longitude)
                      <= radius

_match_time_Exclusive(subscription, message) ==
    LET raw_event == IF message.event_time # None THEN message.event_time
                     ELSE message.created_at
        event_time == fromisoformat(Val(raw_event))
    IN  /\ subscription.when_start # None => event_time > Val(subscription.when_start)
        /\ subscription.when_end # None => event_time < Val(subscription.when_end)
_match_time(subscription, message) ==
    LET raw_event == IF message.event_time # None THEN message.event_time
                     ELSE message.created_at
    IN  IF raw_event = None THEN TRUE
        ELSE IF IsStr(Val(raw_event)) /\ ~Parses(Val(raw_event)) THEN TRUE
        ELSE LET event_time == IF IsStr(Val(raw_event)) THEN fromisoformat(Val(raw_event))
                               ELSE Val(raw_event).dt
             IN  IF subscription.when_start # None /\ event_time < Val(subscription.when_start)
                 THEN FALSE
                 ELSE IF subscription.when_end # None /\ event_time > Val(subscription.when_end)
                 THEN FALSE
                 ELSE TRUE

\* The query of find_matching_subscriptions: what the store hands to the matcher.
PreFilter_NoAny(subscription, message) == subscription.scope = message.scope
PreFilter(subscription, message) ==
    \/ subscription.scope = "any"
    \/ subscription.scope = message.scope
    \/ /\ message.scope = "room" /\ Truthy(message.room_id)
       /\ subscription.scope = "room" /\ subscription.room_id = message.room_id
    \/ /\ message.scope = "p2p" /\ Truthy(message.chat_id)
       /\ subscription.scope = "p2p" /\ subscription.chat_id = message.chat_id

\* The condition of the loop body of find_matching_subscriptions.
Matches(subscription, message) ==
    /\ _match_scope(subscription, message)
    /\ _match_keywords(subscription, message)
    /\ _match_location(subscription, message)
    /\ _match_time(subscription, message)

\* sub_location["latitude"] raises KeyError on a location filter stored without
\* coordinates, once the checks before it have let the subscription through.
LocationRaises(subscription, message) ==
    /\ subscription.where # None
    /\ message.location # None
    /\ Val(subscription.where).radius_km # None
    /\ Val(Val(subscription.where).radius_km) > 0
    /\ "latitude" \notin DOMAIN Val(subscription.where)

\* The loop condition raises: `and` evaluates _match_location only after
\* _match_scope and _match_keywords have passed.
MatchRaises(subscription, message) ==
    /\ _match_scope(subscription, message)
    /\ _match_keywords(subscription, message)
    /\ LocationRaises(subscription, message)

\* find_matching_subscriptions raises KeyError: nothing in it catches one.
FindRaises(collection, message) ==
    \E i \in 1..Len(collection) :
        PreFilter(collection[i], message) /\ MatchRaises(collection[i], message)

\* What find_matching_subscriptions appends for a match: the times serialised.
Serialised(subscription) ==
    [subscription EXCEPT
        !.when_start = IF @ = None THEN None ELSE Some(isoformat(Val(@))),
        !.when_end = IF @ = None THEN None ELSE Some(isoformat(Val(@)))]

RECURSIVE find_matching_subscriptions(_, _)
find_matching_subscriptions(collection, message) ==
    IF collection = <<>> THEN <<>>
    ELSE LET subscription == Head(collection)
             rest == find_matching_subscriptions(Tail(collection), message)
         IN  IF PreFilter(subscription, message) /\ Matches(subscription, message)
             THEN <<Serialised(subscription)>> \o rest
             ELSE rest

\* ------------------------------------------------- endpoint handlers: data
MaxMessages == 1

\* What clients send: two well-formed messages and one without content.
Payloads ==
    {[user_id |-> Some("u1"), content |-> Some(<<"H", "i">>), location |-> None,
      event_time |-> None],
     [user_id |-> Some("u2"), content |-> Some(<<"y", "o">>),
      location |-> Some([latitude |-> 0, longitude |-> 5, radius_km |-> None]),
      event_time |-> Some(2)],
     [user_id |-> Some("u1"), content |-> None, location |-> None, event_time |-> None]}

\* The instant datetime.utcnow() returns in store_message: the clock ticks
\* once per stored message.
utcnow(collection) == Len(collection) + 1

NoFilter ==
    [user_id |-> "u1", scope |-> "any", what |-> <<>>, where |-> None,
     when_start |-> None, when_end |-> None, room_id |-> None, chat_id |-> None]

\* The SubscriptionIn payloads behind the stored subscriptions.
SubPayloads ==
    <<NoFilter,
      [NoFilter EXCEPT !.scope = "common", !.what = << <<" ", "H", "I">> >>],
      [NoFilter EXCEPT !.user_id = "u2", !.scope = "p2p", !.chat_id = Some("S1")],
      [NoFilter EXCEPT !.user_id = "u2", !.scope = "room", !.room_id = Some("R1")],
      [NoFilter EXCEPT !.user_id = "u2",
                       !.where = Some([latitude |-> 0, longitude |-> 0,
                                       radius_km |-> Some(10000)]),
                       !.when_start = Some(2), !.when_end = Some(3)]>>

\* The subscriptions collection: the documents create_subscription stored
\* for the first n payloads.
StoredSubscriptions(n) == [i \in 1..n |-> create_subscription(SubPayloads[i], i)]

NoData == [user_id |-> None, content |-> None, location |-> None, event_time |-> None]

AppIdle ==
    /\ pc = [c \in Handles |-> "new"]
    /\ data = [c \in Handles |-> NoData]
    /\ cur = [c \in Handles |-> NoMsg]
    /\ todo = [c \in Handles |-> <<>>]
    /\ log = [c \in Handles |-> <<>>]
    /\ exit = [c \in Handles |-> "none"]
    /\ inbox = [c \in Handles |-> <<>>]
    /\ messages = <<>>
    /\ subscriptions = <<>>
    /\ quota = MaxMessages
    /\ audience = [c \in Handles |-> {}]
    /\ listeners = [c \in Handles |-> EmptyDict]
    /\ notified = [c \in Handles |-> <<>>]

NoProbe == [subscription |-> NoFilter, message |-> NoMsg]

NoVerdict ==
    [returned |-> FALSE, query |-> FALSE, scope |-> FALSE, keywords |-> FALSE,
     location |-> FALSE, time |-> FALSE, matches |-> <<>>]

MatchIdle ==
    /\ probe = NoProbe
    /\ verdict = NoVerdict

\* ------------------------------------------------------------------ MgrSpec
MgrInit ==
    /\ active_connections = [i \in CommonInstances |-> {}]
    /\ rooms = EmptyDict
    /\ sessions = EmptyDict
    /\ users = EmptyDict
    /\ closed = {}
    /\ bound = [h \in Handles |-> NoBinding]
    /\ call = [t \in Callers |-> IdleCall]
    /\ joined = NoJoins
    /\ AppIdle
    /\ MatchIdle

\* The four managers are separate objects that share no state: a run of
\* MgrSpec drives one of them, the one its first connect or call picks.
MgrInUse(mgr) ==
    /\ \A h \in Handles : bound[h].mgr \in {"none", mgr}
    /\ \A t \in DOMAIN call : call[t].mgr \in {"none", mgr}

\* A connection's handler calls connect with its websocket. Websockets are
\* numbered in order of their first connect.
MgrConnect(h, b) ==
    /\ bound[h] \in {NoBinding, b}
    /\ \A h2 \in Handles : h2 < h => bound[h2] # NoBinding
    /\ MgrInUse(b.mgr)
    /\ IF Accepts(h)
       THEN /\ SetReg(Connect(Reg, b, h))
            /\ bound' = [bound EXCEPT ![h] = b]
            /\ joined' = JoinedAfterJoin(joined, b, h)
       ELSE UNCHANGED <<regVars, bound, joined>>
    /\ UNCHANGED <<closed, call, appVars, matchVars>>

\* A connection's handler calls disconnect with the arguments it connected with.
MgrDisconnect(h) ==
    /\ bound[h] # NoBinding
    /\ SetReg(Disconnect(Reg, bound[h], h))
    /\ joined' = JoinedAfterLeave(joined, bound[h].mgr, bound[h].key, h)
    /\ UNCHANGED <<closed, bound, call, appVars, matchVars>>

\* The peer goes away or the channel breaks.
Close(h) ==
    /\ h \notin closed
    /\ bound[h] # NoBinding
    /\ closed' = closed \cup {h}
    /\ UNCHANGED <<regVars, bound, call, joined, appVars, matchVars>>

\* A task calls broadcast(message), broadcast(room_id, message),
\* send(session_id, message, exclude) or notify(user_id, payload).
MgrBroadcast(t, mgr, key, exclude) ==
    /\ call[t].status = "idle"
    /\ mgr # "p2p" => exclude = {}
    /\ MgrInUse(mgr)
    /\ LET r == BeginCall(Reg, mgr, key, exclude, [id |-> t])
       IN  /\ SetReg(r.reg)
           /\ call' = [call EXCEPT ![t] = r.call]
    /\ UNCHANGED <<closed, bound, joined, appVars, matchVars>>

MgrSendStep(t) ==
    /\ call[t].status = "running"
    /\ \E item \in call[t].pending :
          LET r == StepCall(Reg, call[t], item, closed)
          IN  /\ SetReg(r.reg)
              /\ call' = [call EXCEPT ![t] = r.call]
              /\ joined' = IF ~r.healed THEN joined
                           ELSE JoinedAfterLeave(joined, call[t].mgr, call[t].key, item[2])
    /\ UNCHANGED <<closed, bound, appVars, matchVars>>

CallTargets ==
    {[mgr |-> b.mgr, key |-> b.key, exclude |-> e] :
        b \in Bindings, e \in {{}, {"u1"}}}

MgrNext ==
    \/ \E h \in Handles, b \in Bindings : MgrConnect(h, b)
    \/ \E h \in Handles : MgrDisconnect(h)
    \/ \E h \in Handles : Close(h)
    \/ \E t \in DOMAIN call, c \in CallTargets : MgrBroadcast(t, c.mgr, c.key, c.exclude)
    \/ \E t \in DOMAIN call : MgrSendStep(t)

MgrSpec == MgrInit /\ [][MgrNext]_vars

\* The managers with one more task calling broadcast, send or notify, so
\* that two calls can be in flight at once.
MgrBusyInit ==
    /\ active_connections = [i \in CommonInstances |-> {}]
    /\ rooms = EmptyDict
    /\ sessions = EmptyDict
    /\ users = EmptyDict
    /\ closed = {}
    /\ bound = [h \in Handles |-> NoBinding]
    /\ call = [t \in 1..(NumCallers + 1) |-> IdleCall]
    /\ joined = NoJoins
    /\ AppIdle
    /\ MatchIdle

MgrBusySpec == MgrBusyInit /\ [][MgrNext]_vars

\* ------------------------------------------------------- endpoint handlers
\* main.py binds room_manager twice: to RoomManager(RoomConnectionManager())
\* and then to RoomConnectionManager(); the second binding is the one the
\* endpoints see.
room_manager == "RoomConnectionManager"

\* The methods of the two classes.
HasMethod(class, method) ==
    CASE class = "RoomConnectionManager" -> method \in {"connect", "disconnect", "broadcast"}
      [] class = "RoomManager" ->
            method \in {"create", "list", "history", "connect", "disconnect",
                        "handle_incoming"}

\* The paths a websocket can be opened on: /ws/common, /ws/rooms/{room_id},
\* /ws/p2p/{session_id}/{user_id}, /ws/subscriptions/{user_id}. The common
\* endpoint registers in the ConnectionManager inside common_chat.
Endpoints == {b \in AllBindings : b.key # "common_manager" /\ b.key # "R2"}

Init ==
    /\ active_connections = [i \in CommonInstances |-> {}]
    /\ rooms = EmptyDict
    /\ sessions = EmptyDict
    /\ users = EmptyDict
    /\ closed = {}
    /\ bound = [h \in Handles |-> NoBinding]
    /\ call = [c \in Handles |-> IdleCall]
    /\ joined = NoJoins
    /\ pc = [c \in Handles |-> "new"]
    /\ data = [c \in Handles |-> NoData]
    /\ cur = [c \in Handles |-> NoMsg]
    /\ todo = [c \in Handles |-> <<>>]
    /\ log = [c \in Handles |-> <<>>]
    /\ exit = [c \in Handles |-> "none"]
    /\ inbox = [c \in Handles |-> <<>>]
    /\ messages = <<>>
    /\ subscriptions = StoredSubscriptions(Len(SubPayloads))
    /\ quota = MaxMessages
    /\ audience = [c \in Handles |-> {}]
    /\ listeners = [c \in Handles |-> EmptyDict]
    /\ notified = [c \in Handles |-> <<>>]
    /\ MatchIdle

\* The first statement of every endpoint: connect, which accepts the
\* websocket and registers it. Websockets are numbered in order of arrival.
\* The common, room and P2P managers share no state, so a run opens chat
\* connections on one of the three kinds of chat endpoint, and subscription
\* connections beside them.
Open(c, b) ==
    /\ pc[c] = "new"
    /\ \A c2 \in Handles : c2 < c => pc[c2] # "new"
    /\ b.mgr = "sub" \/ \A c2 \in Handles : bound[c2].mgr \in {"none", "sub", b.mgr}
    /\ Accepts(c)
    /\ SetReg(Connect(Reg, b, c))
    /\ bound' = [bound EXCEPT ![c] = b]
    /\ pc' = [pc EXCEPT ![c] = "recv"]
    /\ UNCHANGED <<closed, call, joined, data, cur, todo, log, exit, inbox, messages,
                   subscriptions, quota, audience, listeners, notified, matchVars>>

\* receive_json returns a message on /ws/common or /ws/p2p: handle_incoming
\* or the endpoint validates it and awaits store_message.
Receive_WithoutWaiting(c, d) ==
    /\ pc[c] \in {"recv", "send"}
    /\ c \notin closed
    /\ bound[c].mgr \in {"common", "p2p"}
    /\ quota > 0
    /\ quota' = quota - 1
    /\ data' = [data EXCEPT ![c] = d]
    /\ IF Validates(d)
       THEN /\ pc' = [pc EXCEPT ![c] = "store"]
            /\ exit' = exit
       ELSE /\ pc' = [pc EXCEPT ![c] = "ended"]
            /\ exit' = [exit EXCEPT ![c] = "ValidationError"]
    /\ UNCHANGED <<regVars, closed, bound, call, joined, cur, todo, log, inbox, messages,
                   subscriptions, audience, listeners, notified, matchVars>>
Receive(c, d) ==
    /\ pc[c] = "recv"
    /\ c \notin closed
    /\ bound[c].mgr \in {"common", "p2p"}
    /\ quota > 0
    /\ quota' = quota - 1
    /\ data' = [data EXCEPT ![c] = d]
    /\ IF Validates(d)
       THEN /\ pc' = [pc EXCEPT ![c] = "store"]
            /\ exit' = exit
       ELSE /\ pc' = [pc EXCEPT ![c] = "ended"]
            /\ exit' = [exit EXCEPT ![c] = "ValidationError"]
    /\ UNCHANGED <<regVars, closed, bound, call, joined, cur, todo, log, inbox, messages,
                   subscriptions, audience, listeners, notified, matchVars>>

\* receive_json returns a message on /ws/rooms/{room_id}: the endpoint calls
\* room_manager.handle_incoming, and the lookup of a method the object does
\* not have raises AttributeError, which the endpoint does not catch.
ReceiveRoom(c, d) ==
    /\ pc[c] = "recv"
    /\ c \notin closed
    /\ bound[c].mgr = "room"
    /\ quota > 0
    /\ ~HasMethod(room_manager, "handle_incoming")
    /\ quota' = quota - 1
    /\ data' = [data EXCEPT ![c] = d]
    /\ audience' = [audience EXCEPT
                      ![c] = {it[2] : it \in Snapshot(Reg, "room", bound[c].key)}]
    /\ pc' = [pc EXCEPT ![c] = "ended"]
    /\ exit' = [exit EXCEPT ![c] = "AttributeError"]
    /\ UNCHANGED <<regVars, closed, bound, call, joined, cur, todo, log, inbox, messages,
                   subscriptions, listeners, notified, matchVars>>

\* In Spec a client's going away takes effect where it is first noticed: at
\* the send to it that fails, or at the receive that raises
\* WebSocketDisconnect.
\*
\* receive_json / receive_text raises WebSocketDisconnect: the except clause
\* disconnects. /ws/common then goes on to common_manager.connect(websocket),
\* whose accept raises on the closed websocket.
Disconnected(c) ==
    /\ pc[c] = "recv"
    /\ closed' = closed \cup {c}
    /\ LET R1 == Disconnect(Reg, bound[c], c)
       IN  IF bound[c].mgr = "common" /\ c \notin closed'
           THEN SetReg(ConnectionManager_connect(R1, "common_manager", c))
           ELSE SetReg(R1)
    /\ pc' = [pc EXCEPT ![c] = "ended"]
    /\ exit' = [exit EXCEPT ![c] = IF bound[c].mgr = "common" THEN "RuntimeError"
                                   ELSE "WebSocketDisconnect"]
    /\ UNCHANGED <<bound, call, joined, data, cur, todo, log, inbox, messages,
                   subscriptions, quota, audience, listeners, notified, matchVars>>

\* The scope a handler's endpoint stores under and broadcasts to.
ScopeOf(b) == IF b.mgr = "common" THEN "common" ELSE "p2p"
ChatIdOf(b) == IF b.mgr = "p2p" THEN Some(b.key) ELSE None
\* websocket_p2p: exclude={message.user_id}.
ExcludeOf(b, stored) == IF b.mgr = "p2p" THEN {stored.user_id} ELSE {}

\* _notify_subscribers: `for subscription in matches`.
DispatchList_OncePerUser(matches) ==
    SelectSeq(matches, LAMBDA m : \A i \in 1..Len(matches) :
                  matches[i].user_id = m.user_id => matches[i].id >= m.id)
DispatchList(matches) == matches

NotifyPayload(subscription, message) ==
    [type |-> "subscription", subscription |-> subscription, message |-> message]

\* The loop of _notify_subscribers from the head of `matches` on, up to the
\* first await of a send: a notify for a user with no websocket returns at once.
\* subscription["user_id"] raises KeyError on a document without the field,
\* and nothing up to the endpoint catches it.
RECURSIVE NotifyFrom(_, _, _, _)
NotifyFrom(R, matches, message, done) ==
    IF matches = <<>>
    THEN [pc |-> "handled", todo |-> <<>>, call |-> IdleCall, notified |-> done]
    ELSE IF "user_id" \notin DOMAIN Head(matches)
    THEN [pc |-> "ended", todo |-> <<>>, call |-> IdleCall, notified |-> done]
    ELSE LET r == BeginCall(R, "sub", Head(matches).user_id, {},
                            NotifyPayload(Head(matches), message))
         IN  IF r.call.status = "returned"
             THEN NotifyFrom(r.reg, Tail(matches), message, Append(done, Head(matches).id))
             ELSE [pc |-> "notify", todo |-> Tail(matches), call |-> r.call,
                   notified |-> Append(done, Head(matches).id)]

\* store_message raises: nothing catches it and the handler ends.
StoreFails_Disconnects(c) ==
    /\ pc[c] = "store"
    /\ pc' = [pc EXCEPT ![c] = "ended"]
    /\ exit' = [exit EXCEPT ![c] = "StoreError"]
    /\ SetReg(Disconnect(Reg, bound[c], c))
    /\ UNCHANGED <<closed, bound, call, joined, data, cur, todo, log, inbox,
                   messages, subscriptions, quota, audience, listeners, notified,
                   matchVars>>
StoreFails(c) ==
    /\ pc[c] = "store"
    /\ pc' = [pc EXCEPT ![c] = "ended"]
    /\ exit' = [exit EXCEPT ![c] = "StoreError"]
    /\ UNCHANGED <<regVars, closed, bound, call, joined, data, cur, todo, log, inbox,
                   messages, subscriptions, quota, audience, listeners, notified,
                   matchVars>>

\* store_message returns: the broadcast (or P2P send) takes its snapshot and
\* starts its first send; with nobody to send to it returns and
\* _notify_subscribers awaits find_matching_subscriptions.
StoreDone(c) ==
    /\ pc[c] = "store"
    /\ LET b == bound[c]
           stored == store_message(data[c], ScopeOf(b), None, ChatIdOf(b),
                                   Len(messages) + 1, utcnow(messages))
           r == BeginCall(Reg, b.mgr, b.key, ExcludeOf(b, stored), stored)
           over == r.call.status = "returned"
       IN  /\ messages' = Append(messages, stored)
           /\ cur' = [cur EXCEPT ![c] = stored]
           /\ SetReg(r.reg)
           /\ call' = [call EXCEPT ![c] = IF over THEN IdleCall ELSE r.call]
           /\ pc' = [pc EXCEPT ![c] = IF over THEN "find" ELSE "send"]
           /\ log' = [log EXCEPT ![c] = IF over THEN <<"store", "fanout", "dispatch">>
                                        ELSE <<"store", "fanout">>]
    /\ UNCHANGED <<closed, bound, joined, data, todo, exit, inbox, subscriptions, quota,
                   audience, listeners, notified, matchVars>>

\* A send of the broadcast completes.
SendDone(c) ==
    /\ pc[c] = "send"
    /\ \E item \in call[c].pending : \E gone \in {closed, closed \cup {item[2]}} :
          LET r == StepCall(Reg, call[c], item, gone)
              over == r.call.status = "returned"
          IN  /\ SetReg(r.reg)
              /\ inbox' = IF r.ok THEN [inbox EXCEPT ![item[2]] = Append(@, call[c].msg)]
                          ELSE inbox
              /\ call' = [call EXCEPT ![c] = IF over THEN IdleCall ELSE r.call]
              /\ pc' = [pc EXCEPT ![c] = IF over THEN "find" ELSE "send"]
              /\ log' = [log EXCEPT ![c] = IF over THEN Append(@, "dispatch") ELSE @]
              /\ closed' = gone
    /\ UNCHANGED <<bound, joined, data, cur, todo, exit, messages, subscriptions,
                   quota, audience, listeners, notified, matchVars>>

\* find_matching_subscriptions returns: the notify loop starts.
FindDone(c) ==
    /\ pc[c] = "find"
    /\ IF FindRaises(subscriptions, cur[c])
       THEN /\ pc' = [pc EXCEPT ![c] = "ended"]
            /\ exit' = [exit EXCEPT ![c] = "KeyError"]
            /\ UNCHANGED <<todo, call, notified>>
       ELSE LET matches == DispatchList(find_matching_subscriptions(subscriptions, cur[c]))
                n == NotifyFrom(Reg, matches, cur[c], <<>>)
            IN  /\ pc' = [pc EXCEPT ![c] = n.pc]
                /\ exit' = [exit EXCEPT ![c] = IF n.pc = "ended" THEN "KeyError" ELSE @]
                /\ todo' = [todo EXCEPT ![c] = n.todo]
                /\ call' = [call EXCEPT ![c] = n.call]
                /\ notified' = [notified EXCEPT ![c] = n.notified]
    /\ listeners' = [listeners EXCEPT ![c] = users]
    /\ UNCHANGED <<regVars, closed, bound, joined, data, cur, log, inbox, messages,
                   subscriptions, quota, audience, matchVars>>

\* A send of a notify completes; after the last one the loop goes on.
NotifyDone(c) ==
    /\ pc[c] = "notify"
    /\ \E item \in call[c].pending : \E gone \in {closed, closed \cup {item[2]}} :
          LET r == StepCall(Reg, call[c], item, gone)
              over == r.call.status = "returned"
              n == NotifyFrom(r.reg, todo[c], cur[c], notified[c])
          IN  /\ SetReg(r.reg)
              /\ inbox' = IF r.ok THEN [inbox EXCEPT ![item[2]] = Append(@, call[c].msg)]
                          ELSE inbox
              /\ pc' = [pc EXCEPT ![c] = IF over THEN n.pc ELSE "notify"]
              /\ exit' = [exit EXCEPT ![c] = IF over /\ n.pc = "ended" THEN "KeyError"
                                             ELSE @]
              /\ todo' = [todo EXCEPT ![c] = IF over THEN n.todo ELSE @]
              /\ call' = [call EXCEPT ![c] = IF over THEN n.call ELSE r.call]
              /\ notified' = [notified EXCEPT ![c] = IF over THEN n.notified ELSE @]
              /\ closed' = gone
    /\ UNCHANGED <<bound, joined, data, cur, log, messages, subscriptions,
                   quota, audience, listeners, matchVars>>

\* _notify_subscribers has returned: `while True` comes round to
\* receive_json, and the names of the last iteration are free to be rebound.
Loop(c) ==
    /\ pc[c] = "handled"
    /\ pc' = [pc EXCEPT ![c] = "recv"]
    /\ data' = [data EXCEPT ![c] = NoData]
    /\ cur' = [cur EXCEPT ![c] = NoMsg]
    /\ log' = [log EXCEPT ![c] = <<>>]
    /\ listeners' = [listeners EXCEPT ![c] = EmptyDict]
    /\ notified' = [notified EXCEPT ![c] = <<>>]
    /\ UNCHANGED <<regVars, closed, bound, call, joined, todo, exit, inbox, messages,
                   subscriptions, quota, audience, matchVars>>

Next ==
    \/ \E c \in Handles, b \in Endpoints : Open(c, b)
    \/ \E c \in Handles, d \in Payloads : Receive(c, d)
    \/ \E c \in Handles, d \in Payloads : ReceiveRoom(c, d)
    \/ \E c \in Handles : Disconnected(c)
    \/ \E c \in Handles : StoreFails(c)
    \/ \E c \in Handles : StoreDone(c)
    \/ \E c \in Handles : SendDone(c)
    \/ \E c \in Handles : FindDone(c)
    \/ \E c \in Handles : NotifyDone(c)
    \/ \E c \in Handles : Loop(c)

Spec == Init /\ [][Next]_vars

\* ------------------------------------------------------------- ForeignSpec
\* The endpoints over a subscriptions collection that also holds a document
\* create_subscription did not write: a p2p subscription whose location filter
\* has no coordinates, or a common subscription without user_id.
ForeignDocuments ==
    {[id |-> 1, user_id |-> "u2", scope |-> "p2p", what |-> <<>>,
      where |-> Some([radius_km |-> Some(10000)]),
      when_start |-> None, when_end |-> None, room_id |-> None, chat_id |-> None],
     [id |-> 1, scope |-> "common", what |-> <<>>, where |-> None,
      when_start |-> None, when_end |-> None, room_id |-> None, chat_id |-> None]}

\* The collection in insertion order, the foreign document first.
ForeignStore(doc) ==
    [i \in 1..(Len(SubPayloads) + 1) |->
        IF i = 1 THEN doc ELSE create_subscription(SubPayloads[i - 1], i)]

ForeignInit ==
    /\ active_connections = [i \in CommonInstances |-> {}]
    /\ rooms = EmptyDict
    /\ sessions = EmptyDict
    /\ users = EmptyDict
    /\ closed = {}
    /\ bound = [h \in Handles |-> NoBinding]
    /\ call = [c \in Handles |-> IdleCall]
    /\ joined = NoJoins
    /\ pc = [c \in Handles |-> "new"]
    /\ data = [c \in Handles |-> NoData]
    /\ cur = [c \in Handles |-> NoMsg]
    /\ todo = [c \in Handles |-> <<>>]
    /\ log = [c \in Handles |-> <<>>]
    /\ exit = [c \in Handles |-> "none"]
    /\ inbox = [c \in Handles |-> <<>>]
    /\ messages = <<>>
    /\ subscriptions \in {ForeignStore(doc) : doc \in ForeignDocuments}
    /\ quota = MaxMessages
    /\ audience = [c \in Handles |-> {}]
    /\ listeners = [c \in Handles |-> EmptyDict]
    /\ notified = [c \in Handles |-> <<>>]
    /\ MatchIdle

ForeignSpec == ForeignInit /\ [][Next]_vars

\* ---------------------------------------------------------------- BusySpec
\* The endpoints in a run with room for one more inbound message, so that
\* the handling of two messages can overlap.
BusyInit ==
    /\ active_connections = [i \in CommonInstances |-> {}]
    /\ rooms = EmptyDict
    /\ sessions = EmptyDict
    /\ users = EmptyDict
    /\ closed = {}
    /\ bound = [h \in Handles |-> NoBinding]
    /\ call = [c \in Handles |-> IdleCall]
    /\ joined = NoJoins
    /\ pc = [c \in Handles |-> "new"]
    /\ data = [c \in Handles |-> NoData]
    /\ cur = [c \in Handles |-> NoMsg]
    /\ todo = [c \in Handles |-> <<>>]
    /\ log = [c \in Handles |-> <<>>]
    /\ exit = [c \in Handles |-> "none"]
    /\ inbox = [c \in Handles |-> <<>>]
    /\ messages = <<>>
    /\ subscriptions = StoredSubscriptions(Len(SubPayloads))
    /\ quota = MaxMessages + 1
    /\ audience = [c \in Handles |-> {}]
    /\ listeners = [c \in Handles |-> EmptyDict]
    /\ notified = [c \in Handles |-> <<>>]
    /\ MatchIdle

BusySpec == BusyInit /\ [][Next]_vars

\* ---------------------------------------------------------------- MatchSpec
\* The matcher on its own: one stored subscription and one stored message.
\*
\* SubscriptionIn takes any string as scope, room_id and chat_id.
ProbeScopes == {"any", "common", "room", "p2p", "other"}
ProbeRoomIds == {None, Some(""), Some("R1"), Some("R2")}
ProbeChatIds == {None, Some(""), Some("S1"), Some("S2")}

\* Location filters around (0, 0): no radius, a radius of 0, a negative one
\* (the API refuses the last two, other writers of the store do not), 5 km.
ProbeRadii == {None, Some(0), Some(0 - 1000), Some(5000)}

ProbeWheres ==
    {Some([latitude |-> 0, longitude |-> 0, radius_km |-> r]) : r \in ProbeRadii}

\* Time windows over the instants 2 and 3.
ProbeWindows == {<<None, None>>, <<Some(2), None>>, <<None, Some(3)>>, <<Some(2), Some(3)>>}

\* Keyword lists as clients post them.
ProbeKeywords ==
    {<< >>,
     << <<" ">> >>,
     << <<" ", "H", "I", " ">> >>,
     << <<"z">>, <<"y", "o">> >>,
     << <<"i", "h">> >>}

ProbeSubscriptions ==
    {create_subscription([NoFilter EXCEPT !.scope = sc, !.room_id = r, !.chat_id = ch], 1) :
        sc \in ProbeScopes, r \in ProbeRoomIds, ch \in ProbeChatIds}
    \cup {create_subscription([NoFilter EXCEPT !.where = w], 1) : w \in ProbeWheres}
    \cup {create_subscription([NoFilter EXCEPT !.when_start = w[1], !.when_end = w[2]], 1) :
             w \in ProbeWindows}
    \cup {create_subscription([NoFilter EXCEPT !.what = k], 1) : k \in ProbeKeywords}

\* The documents store_message returns for the three endpoints' scope fields.
ProbeTargets ==
    {<<"common", None, None>>,
     <<"room", Some("R1"), None>>, <<"room", Some("R2"), None>>,
     <<"p2p", None, Some("S1")>>, <<"p2p", None, Some("S2")>>}

\* What the probe messages carry besides the payloads of the endpoints:
\* locations on the equator up to 6 hundredths of a degree east, event times
\* around the windows, contents in mixed case.
ProbeLocations ==
    {None} \cup {Some([latitude |-> 0, longitude |-> lon, radius_km |-> None]) :
                    lon \in {0, 4, 5, 6}}

ProbeInstants == 1..4

ProbeContents == {<<"H", "i">>, <<"y", "o">>, <<"O", "h", "I", "o">>, <<"h">>}

ProbePayloads ==
    {d \in Payloads : Validates(d)}
    \cup {[user_id |-> Some("u1"), content |-> Some(<<"H", "i">>), location |-> l,
           event_time |-> None] : l \in ProbeLocations}
    \cup {[user_id |-> Some("u1"), content |-> Some(<<"H", "i">>), location |-> None,
           event_time |-> Some(e)] : e \in ProbeInstants}
    \cup {[user_id |-> Some("u1"), content |-> Some(c), location |-> None,
           event_time |-> None] : c \in ProbeContents}

ProbeMessages ==
    {store_message(d, t[1], t[2], t[3], 1, 1) :
        d \in {d \in Payloads : Validates(d)}, t \in ProbeTargets}
    \cup {store_message(d, "common", None, None, 1, now) :
             d \in ProbePayloads, now \in ProbeInstants}

MatchInit ==
    /\ active_connections = [i \in CommonInstances |-> {}]
    /\ rooms = EmptyDict
    /\ sessions = EmptyDict
    /\ users = EmptyDict
    /\ closed = {}
    /\ bound = [h \in Handles |-> NoBinding]
    /\ call = [c \in Handles |-> IdleCall]
    /\ joined = NoJoins
    /\ AppIdle
    /\ probe \in [subscription : ProbeSubscriptions, message : ProbeMessages]
    /\ verdict = NoVerdict

\* find_matching_subscriptions(message) over a collection holding the one
\* subscription: the query, the four predicates, the list returned.
Evaluate ==
    /\ ~verdict.returned
    /\ verdict' =
          [returned |-> TRUE,
           query |-> PreFilter(probe.subscription, probe.message),
           scope |-> _match_scope(probe.subscription, probe.message),
           keywords |-> _match_keywords(probe.subscription, probe.message),
           location |-> _match_location(probe.subscription, probe.message),
           time |-> _match_time(probe.subscription, probe.message),
           matches |-> find_matching_subscriptions(<<probe.subscription>>, probe.message)]
    /\ UNCHANGED <<regVars, closed, bound, call, joined, appVars, probe>>

MatchNext == Evaluate

MatchSpec == MatchInit /\ [][MatchNext]_vars

\* ------------------------------------------------------- claims on MgrSpec
Sendable(c) == {it \in c.snapshot : it[1] \notin c.exclude}

\* C1: in each of the four registries the registered member set of every
\* scope key is exactly the handles joined and not subsequently left (in a
\* session the most recent join per participant identity), and a leave issued
\* by one connection removes only that connection's own handle.
C1_MembersAreJoinedNotLeft == Members = joined

\* C3: once a broadcast, send or notify call has finished, no handle whose
\* send failed during it is a member of the call's scope key.
C3_SelfHeal ==
    \A t \in DOMAIN call :
        call[t].status = "returned" =>
            \A h \in call[t].failed :
                h \notin {it[2] : it \in Snapshot(Reg, call[t].mgr, call[t].key)}

C3_Witness ==
    \E t \in DOMAIN call :
        /\ call[t].status = "returned"
        /\ call[t].failed # {}
        /\ Cardinality(call[t].snapshot) >= 2

\* C4: a call never ends by raising, and a call that has returned has
\* attempted the send to every non-excluded member of its snapshot, whatever
\* the sends to the other members did.
C4_FailureDoesNotBlockOthers ==
    \A t \in DOMAIN call :
        /\ call[t].status # "raised"
        /\ call[t].status = "returned" =>
              \A it \in Sendable(call[t]) : call[t].attempts[it[2]] >= 1

C4_Witness ==
    \E t \in DOMAIN call :
        /\ call[t].status = "returned"
        /\ \E h1 \in call[t].failed :
              \E it \in Sendable(call[t]) :
                  it[2] # h1 /\ it[2] \notin call[t].failed /\ call[t].attempts[it[2]] = 1

\* C5: within one call each handle is sent the message at most once; a handle
\* whose send failed is not sent to again.
C5_AtMostOneAttempt ==
    \A t \in DOMAIN call :
        \A h \in DOMAIN call[t].attempts : call[t].attempts[h] <= 1

C5_Witness ==
    \E t \in DOMAIN call :
        /\ call[t].status = "returned"
        /\ \E h \in call[t].failed : call[t].attempts[h] = 1

\* C6: a P2P send with exclude = {u} never attempts the handle its snapshot
\* holds under participant identity u, and by its end has attempted every
\* other participant of the snapshot.
C6_ExcludedNeverAttempted ==
    \A t \in DOMAIN call :
        call[t].mgr = "p2p" =>
            /\ \A it \in call[t].snapshot :
                  it[1] \in call[t].exclude => call[t].attempts[it[2]] = 0
            /\ call[t].status = "returned" =>
                  \A it \in call[t].snapshot :
                      it[1] \notin call[t].exclude => call[t].attempts[it[2]] >= 1

C6_Witness ==
    \E t \in DOMAIN call :
        /\ call[t].mgr = "p2p"
        /\ call[t].status = "returned"
        /\ call[t].exclude = {"u1"}
        /\ {it[1] : it \in call[t].snapshot} = {"u1", "u2"}

\* ---------------------------------------------------------- claims on Spec
\* What h's inbox holds: broadcast messages and notifications.
IsNotification(e) == "type" \in DOMAIN e

Notifications(h) == {i \in 1..Len(inbox[h]) : IsNotification(inbox[h][i])}

NotificationsOf(h, message) ==
    {i \in Notifications(h) : inbox[h][i].message = message}

\* The handler of c took a well-formed message and is through with it, the
\* store not having failed.
Through(c) ==
    /\ Validates(data[c])
    /\ pc[c] \in {"handled", "ended"}
    /\ exit[c] # "StoreError"

\* C2: when a connection of a room sends a message, every other connection
\* registered in that room then (and still open) has received exactly one
\* copy of the stored message, with scope "room" and the room's id.
C2_RoomFanOutOnce ==
    \A c \in Handles :
        (bound[c].mgr = "room" /\ Through(c)) =>
            \A h \in audience[c] \ ({c} \cup closed) :
                LET IsCopy(e) == /\ ~IsNotification(e)
                                 /\ e.scope = "room"
                                 /\ e.room_id = Some(bound[c].key)
                                 /\ e.content = Val(data[c].content)
                IN  Cardinality({i \in 1..Len(inbox[h]) : IsCopy(inbox[h][i])}) = 1

\* C7: for every inbound message on a common, room or P2P endpoint the handler
\* has, by the time it is through with the message, performed one store-write,
\* then one fan-out broadcast, then one subscription dispatch, in that order.
C7_StoreFanOutDispatch ==
    \A c \in Handles :
        (bound[c].mgr \in {"common", "room", "p2p"} /\ Through(c)) =>
            log[c] = <<"store", "fanout", "dispatch">>

\* C8: the subscriptions a dispatch notifies are exactly the stored ones for
\* which the scope, keyword, location and time predicates all hold of the
\* message, and a notification is delivered only on websockets registered
\* under its subscription's user_id.
C8_NotifiesExactlyTheMatches ==
    /\ \A c \in Handles :
          pc[c] = "handled" =>
              notified[c] =
                  LET ids == SelectSeq(subscriptions, LAMBDA s : Matches(s, cur[c]))
                  IN  [i \in 1..Len(ids) |-> ids[i].id]
    /\ \A h \in Handles :
          \A i \in Notifications(h) :
              LET e == inbox[h][i]
              IN  /\ bound[h].mgr = "sub"
                  /\ bound[h].key = e.subscription.user_id
                  /\ Matches(subscriptions[e.subscription.id], e.message)

C8_Witness ==
    \E c \in Handles :
        /\ pc[c] = "handled"
        /\ cur[c].scope = "p2p"
        /\ Len(notified[c]) >= 2
        /\ Len(notified[c]) < Len(subscriptions)
        /\ \E h \in Handles :
              \E i \in NotificationsOf(h, cur[c]) :
                  inbox[h][i].subscription.scope = "any"

\* C9: a user with k stored subscriptions matching a message is sent k
\* notifications of it on each user-notify websocket of theirs that was
\* registered when the dispatch began and is still open.
C9_OneNotificationPerSubscription ==
    \A c \in Handles :
        pc[c] = "handled" =>
            \A u \in DOMAIN listeners[c] :
                \A h \in listeners[c][u] \ closed :
                    LET Mine(s) == s.user_id = u /\ Matches(s, cur[c])
                    IN  Cardinality(NotificationsOf(h, cur[c])) =
                            Len(SelectSeq(subscriptions, Mine))

C9_Witness ==
    \E c \in Handles :
        /\ pc[c] = "handled"
        /\ \E u \in DOMAIN listeners[c] :
              \E h \in listeners[c][u] \ closed :
                  Cardinality(NotificationsOf(h, cur[c])) = 2

\* -------------------------------------------------------- claims on MatchSpec
\* C10: the scope predicate passes a subscription with scope filter "any" for
\* every message; otherwise it passes only if the filter equals the message's
\* scope kind and, for "room" (resp. "p2p"), the subscription's room id (resp.
\* chat id) is absent (none, or empty) or equals the message's.
C10_ScopePredicate ==
    verdict.returned =>
        LET s == probe.subscription
            m == probe.message
            Absent(o) == o = None \/ o = Some("")
        IN  verdict.scope <=>
                \/ s.scope = "any"
                \/ /\ s.scope = m.scope
                   /\ s.scope = "room" => (Absent(s.room_id) \/ s.room_id = m.room_id)
                   /\ s.scope = "p2p" => (Absent(s.chat_id) \/ s.chat_id = m.chat_id)

C10_Witness ==
    /\ verdict.returned
    /\ probe.subscription.scope = "room"
    /\ probe.subscription.room_id = Some("R1")
    /\ probe.message.scope = "room"
    /\ probe.message.room_id = Some("R2")
    /\ ~verdict.scope

\* C11: a subscription whose location filter has radius 0, a negative radius
\* or no radius passes the location predicate for every message, whatever the
\* message's location and also when the message carries none.
C11_RadiusDisablesFilter ==
    verdict.returned =>
        LET where == probe.subscription.where
        IN  (where # None /\ (Val(where).radius_km = None \/ Val(Val(where).radius_km) <= 0))
                => verdict.location

\* C12: the time predicate compares the message's event time if present, else
\* its creation time, and passes iff that time is not before the start bound
\* and not after the end bound, both inclusive, an absent bound leaving its
\* side open.
C12_TimeWindowInclusive ==
    verdict.returned =>
        LET s == probe.subscription
            m == probe.message
            t == IF m.event_time # None THEN Val(m.event_time).iso
                 ELSE Val(m.created_at).iso
        IN  verdict.time <=>
                /\ s.when_start = None \/ Val(s.when_start) <= t
                /\ s.when_end = None \/ t <= Val(s.when_end)

C12_Witness ==
    /\ verdict.returned
    /\ probe.subscription.when_start = Some(2)
    /\ probe.subscription.when_end = Some(3)
    /\ probe.message.event_time = Some(isoformat(3))
    /\ probe.message.created_at = Some(isoformat(4))
    /\ verdict.time

\* C13: an empty keyword list passes every message; otherwise the keyword
\* predicate passes iff some keyword occurs in the message content as a
\* contiguous run of characters, letter case ignored.
C13_KeywordSubstring ==
    verdict.returned =>
        LET what == probe.subscription.what
            content == probe.message.content
            Occurs(k) ==
                \E i \in 0..(Len(content) - Len(k)) :
                    \A j \in 1..Len(k) : Lower(content[i + j]) = Lower(k[j])
        IN  verdict.keywords <=> (what = <<>> \/ \E n \in 1..Len(what) : Occurs(what[n]))

C13_Witness ==
    /\ verdict.returned
    /\ probe.subscription.what = << <<"h", "i">> >>
    /\ probe.message.content = <<"O", "h", "I", "o">>
    /\ verdict.keywords

\* ------------------------------------------------------ claims on ForeignSpec
\* A stored subscription with the fields the matcher and the dispatcher read.
WellFormed(s) ==
    /\ "user_id" \in DOMAIN s
    /\ s.where # None => {"latitude", "longitude"} \subseteq DOMAIN Val(s.where)

\* C14: a stored subscription missing required fields is a non-match for that
\* subscription only: no error reaches the sender's handler, and every
\* well-formed subscription that matches the message is still notified.
C14_MalformedIsNonMatch ==
    \A c \in Handles :
        (bound[c].mgr \in {"common", "p2p"} /\ Through(c)) =>
            /\ exit[c] # "KeyError"
            /\ \A i \in 1..Len(subscriptions) :
                  (WellFormed(subscriptions[i]) /\ Matches(subscriptions[i], cur[c]))
                      => \E n \in 1..Len(notified[c]) : notified[c][n] = i

\* ------------------------------------------------ more claims on Spec
\* Everything in an inbox is, or is a notification about, a stored message.
Provenance ==
    \A h \in Handles : \A i \in 1..Len(inbox[h]) :
        LET e == inbox[h][i]
            m == IF IsNotification(e) THEN e.message ELSE e
        IN  \E k \in 1..Len(messages) : messages[k] = m

\* The websockets registered under the key c's handler connected to.
RegisteredWith(c) == {it[2] : it \in Snapshot(Reg, bound[c].mgr, bound[c].key)}

\* How many times message is in an inbox as a broadcast.
CopiesOf(box, message) ==
    Cardinality({i \in 1..Len(box) : box[i] = message})

\* C15: the step at which the store-write of a handler's message fails sends
\* nothing, stores nothing, leaves every registry and every other handler as
\* it was, and the handler ends there: it has made no fan-out and no dispatch,
\* and whatever anyone has been sent is, or is about, a stored message. A
\* broadcast that ends after a store-write has failed has sent its message
\* once to every websocket of its snapshot that it does not exclude and that
\* is still open.
C15_StoreFailureIsContained ==
    [][\A c \in Handles :
          /\ (pc[c] = "store" /\ exit'[c] = "StoreError") =>
                /\ regVars' = regVars
                /\ closed' = closed
                /\ inbox' = inbox
                /\ messages' = messages
                /\ call' = call
                /\ \A h \in Handles \ {c} : pc'[h] = pc[h] /\ exit'[h] = exit[h]
          /\ exit'[c] = "StoreError" =>
                /\ pc'[c] = "ended"
                /\ log'[c] = <<>>
                /\ call'[c] = IdleCall
                /\ Provenance'
          /\ exit[c] = "StoreError" =>
                \A h \in Handles :
                    (pc[h] = "send" /\ pc'[h] = "find") =>
                        \A it \in call[h].snapshot :
                            (it[1] \notin call[h].exclude /\ it[2] \notin closed')
                                => CopiesOf(inbox'[it[2]], cur[h]) = 1]_vars

\* A store-write has failed for a handler whose websocket is still open and
\* registered, and another connection of the same scope has since sent a
\* message that is about to be stored and broadcast.
C15_Witness ==
    \E c \in Handles, h \in Handles :
        /\ c # h
        /\ exit[c] = "StoreError"
        /\ c \notin closed /\ h \notin closed
        /\ bound[h] = [bound[c] EXCEPT !.id = bound[h].id]
        /\ {c, h} \subseteq RegisteredWith(c)
        /\ pc[h] = "store"

\* The snapshot of the fan-out c's handler is making or about to make.
FanOutSnapshot(c) ==
    IF pc[c] = "send" THEN call[c].snapshot ELSE Snapshot(Reg, bound[c].mgr, bound[c].key)

\* C20: when the fan-out of a message ends, in a P2P session the sender's
\* websocket has not been sent the message and every participant of the
\* snapshot under another identity (still open) has been sent it once; on the
\* common endpoint every member of the snapshot still open, the sender
\* included, has been sent it once; and a room handler that is through with a
\* message has left a copy of it with the sender.
C20_SenderExclusion ==
    [][\A c \in Handles :
          /\ (pc[c] \in {"store", "send"} /\ pc'[c] = "find") =>
                /\ bound[c].mgr = "p2p" =>
                      /\ CopiesOf(inbox'[c], cur'[c]) = 0
                      /\ \A it \in FanOutSnapshot(c) :
                            (it[1] # bound[c].id /\ it[2] \notin closed')
                                => CopiesOf(inbox'[it[2]], cur'[c]) = 1
                /\ bound[c].mgr = "common" =>
                      \A it \in FanOutSnapshot(c) :
                          it[2] \notin closed' => CopiesOf(inbox'[it[2]], cur'[c]) = 1
          /\ (bound[c].mgr = "room" /\ pc[c] = "recv" /\ Through(c)' /\ c \notin closed') =>
                \E i \in 1..Len(inbox'[c]) :
                    /\ inbox'[c][i].scope = "room"
                    /\ inbox'[c][i].content = Val(data'[c].content)]_vars

\* Every key of every registry c's websocket is registered under.
RegisteredAnywhere(c) ==
    \/ \E i \in CommonInstances : c \in active_connections[i]
    \/ \E k \in DOMAIN rooms : c \in rooms[k]
    \/ \E k \in DOMAIN sessions : \E u \in DOMAIN sessions[k] : sessions[k][u] = c
    \/ \E k \in DOMAIN users : c \in users[k]

\* C27: once the handler of a connection has ended, whatever ended it, the
\* connection's websocket is registered under no key of any registry, the
\* second ConnectionManager included.
C27_EndedIsUnregistered ==
    \A c \in Handles : pc[c] = "ended" => ~RegisteredAnywhere(c)

\* ------------------------------------------------ more claims on MgrSpec
\* A broadcast, send or notify call is between its snapshot and its last send
\* on the key of that manager.
InFlight(mgr, key) ==
    \E t \in DOMAIN call :
        call[t].status = "running" /\ call[t].mgr = mgr /\ call[t].key = key

\* C16: once no broadcast is in flight on a key, the rooms, sessions and users
\* maps hold no key that maps to an empty member collection.
C16_NoEmptyGroups ==
    /\ \A k \in DOMAIN rooms : ~InFlight("room", k) => rooms[k] # {}
    /\ \A k \in DOMAIN sessions : ~InFlight("p2p", k) => DOMAIN sessions[k] # {}
    /\ \A k \in DOMAIN users : ~InFlight("sub", k) => users[k] # {}

\* The websockets registered under a key of a manager.
RegisteredUnder(mgr, key) == {it[2] : it \in Snapshot(Reg, mgr, key)}

\* C19: the self-heal that follows a failed send removes only the websocket
\* whose send failed: every other websocket registered under the call's key
\* when the self-heal runs is still registered under it afterwards.
C19_SelfHealRemovesOnlyTheFailed ==
    [][\A t \in DOMAIN call : \A f \in call'[t].failed \ call[t].failed :
          RegisteredUnder(call[t].mgr, call[t].key) \ {f}
              \subseteq RegisteredUnder(call[t].mgr, call[t].key)']_vars

\* ------------------------------------------------------ claims on BusySpec
\* C17: at every moment at most one broadcast, send or notify call is in
\* flight, between its snapshot and its last send, on any one scope key.
C17_OneBroadcastPerKey ==
    \A c1 \in Handles, c2 \in Handles :
        (/\ c1 # c2
         /\ call[c1].status = "running"
         /\ call[c2].status = "running"
         /\ call[c1].mgr = call[c2].mgr)
            => call[c1].key # call[c2].key

\* C18: of two messages of the same scope key, the one stored first comes
\* first in the inbox of every websocket that was sent both.
C18_OrderWithinScope ==
    \A h \in Handles : \A i \in 1..Len(inbox[h]), j \in 1..Len(inbox[h]) :
        (/\ ~IsNotification(inbox[h][i])
         /\ ~IsNotification(inbox[h][j])
         /\ inbox[h][i].scope = inbox[h][j].scope
         /\ inbox[h][i].chat_id = inbox[h][j].chat_id
         /\ inbox[h][i].id < inbox[h][j].id)
            => i < j

\* ------------------------------------------------ claims on MgrSpec: joins
\* The websockets that joined a key and have not left it since.
JoinedUnder(J, mgr, key) ==
    CASE mgr = "common" -> J.ac[key]
      [] mgr = "room" -> J.rooms[key]
      [] mgr = "p2p" -> {p[2] : p \in J.sessions[key]}
      [] mgr = "sub" -> J.users[key]

\* A websocket that is registered under the arguments its handler connected
\* with, in a session under its own identity, joins again without changing
\* any registry.
JoinIsIdempotent ==
    \A h \in Handles :
        (/\ bound[h] # NoBinding
         /\ \E it \in Snapshot(Reg, bound[h].mgr, bound[h].key) :
               /\ it[2] = h
               /\ bound[h].mgr = "p2p" => it[1] = bound[h].id)
            => Connect(Reg, bound[h], h) = Reg

C22_LeaveAffectsFutureBroadcasts ==
    [][/\ joined' # joined =>
             \A b \in Bindings :
                 \A h \in JoinedUnder(joined, b.mgr, b.key) \ JoinedUnder(joined', b.mgr, b.key) :
                     h \notin RegisteredUnder(b.mgr, b.key)'
       /\ \A t \in DOMAIN call :
             call'[t] # call[t] =>
                 /\ call[t].status = "idle" =>
                       {it[2] : it \in call'[t].snapshot}
                           \subseteq JoinedUnder(joined, call'[t].mgr, call'[t].key)
                 /\ \A h \in DOMAIN call'[t].attempts : call'[t].attempts[h] <= 1]_vars

\* Websocket 1 joined room R1 before websocket 2 did and has left it; a
\* broadcast to R1 that started after that has websocket 2 alone in its
\* snapshot and has attempted it.
C22_Witness ==
    \E t \in DOMAIN call :
        /\ bound[1] = [mgr |-> "room", key |-> "R1", id |-> NoId]
        /\ bound[2] = bound[1]
        /\ 1 \notin closed
        /\ 1 \notin joined.rooms["R1"]
        /\ call[t].mgr = "room" /\ call[t].key = "R1"
        /\ call[t].snapshot = {<<NoId, 2>>}
        /\ call[t].attempts[2] = 1

\* C25: a disconnect by a connection whose websocket is not registered under
\* the key it connected to leaves the registry as it is: it creates no key,
\* and the members of that key and of every other key stay the same.
C25_LeaveOfAbsentIsNoOp ==
    \A h \in Handles :
        (/\ bound[h] # NoBinding
         /\ h \notin RegisteredUnder(bound[h].mgr, bound[h].key)) =>
            LET after == Disconnect(Reg, bound[h], h)
            IN  /\ DOMAIN after.rooms \subseteq DOMAIN rooms
                /\ DOMAIN after.sessions \subseteq DOMAIN sessions
                /\ DOMAIN after.users \subseteq DOMAIN users
                /\ \A b \in Bindings :
                      Snapshot(after, b.mgr, b.key) = Snapshot(Reg, b.mgr, b.key)

\* --------------------------------------------- claims on MgrSpec: snapshots
\* C23: a call iterates over a copy of the members taken when it starts. Its
\* snapshot is the member set of its key at that moment and never changes;
\* the websockets it attempts are those of the snapshot it has not excluded,
\* so one that joins while the call is in flight is not attempted; and
\* whatever joins, leaves and self-heals happen meanwhile, the call never
\* raises and returns having attempted every such member once.
C23_IteratesOverSnapshot ==
    [][\A t \in DOMAIN call :
          call'[t] # call[t] =>
              /\ call[t].status = "idle" =>
                    {it[2] : it \in call'[t].snapshot}
                        = JoinedUnder(Members, call'[t].mgr, call'[t].key)
              /\ call[t].status # "idle" => call'[t].snapshot = call[t].snapshot
              /\ DOMAIN call'[t].attempts = {it[2] : it \in call'[t].snapshot}
              /\ \A it \in call'[t].snapshot \ Sendable(call'[t]) :
                    call'[t].attempts[it[2]] = 0
              /\ call'[t].status # "raised"
              /\ call'[t].status = "returned" =>
                    \A it \in Sendable(call'[t]) : call'[t].attempts[it[2]] = 1]_vars

\* A broadcast to a room is in flight with websocket 1, its whole snapshot,
\* still to be attempted; meanwhile websocket 1 has left the room and
\* websocket 2 has joined it.
C23_Witness ==
    \E t \in DOMAIN call :
        /\ call[t].status = "running"
        /\ call[t].mgr = "room"
        /\ call[t].snapshot = {<<NoId, 1>>}
        /\ call[t].pending = {<<NoId, 1>>}
        /\ RegisteredUnder("room", call[t].key) = {2}
        /\ closed = {}

\* ------------------------------------------------ claims on MgrBusySpec
\* C24: a broadcast, send or notify that starts on a key with no members
\* returns at once without raising, having attempted no send, and leaves
\* every registry map as it was.
C24_MemberlessBroadcastIsNoOp ==
    [][\A t \in DOMAIN call :
          (/\ call[t].status = "idle"
           /\ call'[t].status # "idle"
           /\ JoinedUnder(Members, call'[t].mgr, call'[t].key) = {}) =>
              /\ call'[t].status = "returned"
              /\ DOMAIN call'[t].attempts = {}
              /\ regVars' = regVars]_vars

\* ------------------------------------------------ more claims on BusySpec
\* The connections opened on a chat endpoint.
ChatConnections == {c \in Handles : bound[c].mgr \in {"common", "room", "p2p"}}

\* The broadcast messages in an inbox are in the order they were stored in.
InStoredOrder(box) ==
    \A i \in 1..Len(box), j \in 1..Len(box) :
        (~IsNotification(box[i]) /\ ~IsNotification(box[j]) /\ box[i].id < box[j].id)
            => i < j

\* C26: a connection's messages are broadcast one after the other. When its
\* handler takes the next message, and when it starts the broadcast of a
\* message, no call of its own is in flight, and the message is newer than
\* every message anyone has been sent; a broadcast message reaches an inbox
\* only as the current message of a handler that is sending it to that
\* websocket; and with a single chat connection every inbox holds the
\* messages in the order they were stored in.
C26_OrderPerConnection ==
    [][/\ \A c \in Handles :
             /\ (pc[c] = "recv" /\ pc'[c] = "store") => call[c] = IdleCall
             /\ (pc[c] = "store" /\ pc'[c] \in {"send", "find"}) =>
                   /\ call[c] = IdleCall
                   /\ \A h \in Handles : \A i \in 1..Len(inbox[h]) :
                         ~IsNotification(inbox[h][i]) => inbox[h][i].id < cur'[c].id
       /\ \A h \in Handles :
             (inbox'[h] # inbox[h] /\ ~IsNotification(inbox'[h][Len(inbox'[h])])) =>
                 \E c \in Handles :
                     /\ pc[c] = "send"
                     /\ inbox'[h] = Append(inbox[h], cur[c])
                     /\ \E it \in call[c].pending : it[2] = h
       /\ Cardinality(ChatConnections') = 1 =>
             \A h \in Handles : InStoredOrder(inbox[h])']_vars

\* The only chat connection there is has sent two messages on /ws/common and
\* has been sent both, the first one first.
C26_Witness ==
    \E c \in Handles :
        /\ ChatConnections = {c}
        /\ bound[c].mgr = "common"
        /\ Len(messages) = 2
        /\ inbox[c] = messages

====
